---- MODULE Spec2Model ----
(***************************************************************************)
(* Model of the short-links service (src/src/main.rs): three axum handlers *)
(* (generate_link, proxy_link, get_stats) run as concurrent tasks over one  *)
(* Redis store.  Every Redis command is one atomic step of the store; a    *)
(* handler is suspended between two commands, so the commands of different *)
(* requests interleave freely.  Every command may also fail with a         *)
(* communication error (a failed command is one that did not reach the     *)
(* store), and a key that carries a TTL may expire at any moment.          *)
(***************************************************************************)
EXTENDS Integers, Sequences, FiniteSets, TLC

\* ---------------------------------------------------------------- bounds
MaxRequests == 2         \* requests accepted in one behaviour of Spec (one more in SpecWide)

Procs == {"a", "b"}      \* request tasks that can be in flight together
Keys == {"k1", "k2"}     \* values rand_string(6) can return
Tokens == {"t1", "t2"}   \* values rand_string(24) can return
Urls == {"u1", "u2"}     \* values of the "url" member of a request body (non-empty ones)
AuthSecret == "secret"   \* value of AUTH_TOKEN when it is set
Headers == {AuthSecret, "wrong"}

\* Option<T>: None, or Some(x)
None == <<>>
Some(x) == <<x>>
Unwrap(o) == o[1]

MaxAttempts == 3         \* for attempt in 0..3
TTL_SECONDS == 2592000   \* 60 * 60 * 24 * 30

VARIABLES
    store,           \* Redis: key -> hash record
    auth_token_env,  \* the AUTH_TOKEN environment variable, an Option
    pc,              \* per task: where it is suspended
    req,             \* per task: the request (kind, header, short_key, supplied), the locals of
                     \* its handler, its response, and history:
                     \*   prior: the keys in "returned" when its allocation started
                     \*   expect_url: the url of "created" for its key when a redirect read the url
                     \*   issued_token: the token of "created" for its key when a stats request read the token
                     \*   present: whether its key existed when a stats request read the token
    started,         \* number of requests accepted so far
    returned,        \* history: keys returned by generate_and_save_key whose record still exists
    created,         \* history: per key, <<url, token>> of the first successful creation since the key last expired
    redirects        \* history: per key, number of redirects answered 307 since the key last expired

vars == <<store, auth_token_env, pc, req, started, returned, created, redirects>>

\* ------------------------------------------------------------ Redis store
\* A hash: the set of fields it holds, their values (a default where the
\* field is not held) and whether a TTL is set.  A key exists iff its hash
\* holds at least one field.
Absent == [has |-> {}, url |-> "", token |-> "", clicks |-> 0, ttl |-> 0]

\* EXISTS key
Exists(st, k) == st[k].has # {}

\* HSET key field value: creates the hash when the key is absent; an existing
\* TTL is kept, none is set.
HSetUrl(st, k, v) == [st EXCEPT ![k].has = @ \cup {"url"}, ![k].url = v]
HSetTokenDropTTL(st, k, v) ==
    [st EXCEPT ![k].has = @ \cup {"token"}, ![k].token = v, ![k].ttl = 0]
HSetToken(st, k, v) == [st EXCEPT ![k].has = @ \cup {"token"}, ![k].token = v]
HSetClicks(st, k, v) == [st EXCEPT ![k].has = @ \cup {"clicks"}, ![k].clicks = v]

\* EXPIRE key seconds: sets the TTL of an existing key, does nothing (and
\* reports no error) on an absent one.
ExpireCmdForgotten(st, k, secs) == st
ExpireCmd(st, k, secs) == IF Exists(st, k) THEN [st EXCEPT ![k].ttl = secs] ELSE st

\* HGET key field: nil (None) when the key or the field is absent.
HGetUrlNonEmpty(st, k) ==
    IF "url" \in st[k].has /\ st[k].url # "" THEN Some(st[k].url) ELSE None
HGetUrl(st, k) == IF "url" \in st[k].has THEN Some(st[k].url) ELSE None
HGetToken(st, k) == IF "token" \in st[k].has THEN Some(st[k].token) ELSE None
HGetClicks(st, k) == IF "clicks" \in st[k].has THEN Some(st[k].clicks) ELSE None

\* HINCRBY key field delta: an absent field counts as 0, an absent key is
\* created (without TTL).
HIncrClicksSkipped(st, k, d) == st
HIncrClicks(st, k, d) == [st EXCEPT ![k].has = @ \cup {"clicks"}, ![k].clicks = @ + d]

\* ------------------------------------------------------------ task locals
Fresh == [kind |-> "none", header |-> None, short_key |-> "", url |-> "", token |-> "",
          attempt |-> 0, supplied |-> None, stored_token |-> None,
          status |-> "", clicks |-> 0, failed |-> "",
          prior |-> {}, expect_url |-> None, issued_token |-> None, present |-> FALSE]

\* A handler returns: its locals are dropped, the task keeps the response
\* (status; key and token of a creation, target of a redirect, clicks of a
\* stats reply) and what the request was.
Respond(r, code) == [r EXCEPT !.status = code, !.attempt = 0, !.prior = {},
                              !.url = IF r.kind = "generate" THEN "" ELSE @,
                              !.token = IF code = "200" THEN @ ELSE ""]

Init ==
    /\ store = [k \in Keys |-> Absent]
    /\ auth_token_env \in {None, Some(AuthSecret)}
    /\ pc = [p \in Procs |-> "idle"]
    /\ req = [p \in Procs |-> Fresh]
    /\ started = 0
    /\ returned = {}
    /\ created = [k \in Keys |-> None]
    /\ redirects = [k \in Keys |-> 0]

\* --------------------------------------------------------- generate_link
\* if auth_token != req_auth_token { return Err(UNAUTHORIZED) }
AuthRejected(env, header) ==
    \/ env = None
    \/ header = None
    \/ Unwrap(env) # Unwrap(header)

\* Lines 48-60: read and parse the body, check the Authorization header
\* against AUTH_TOKEN, open the store connection; then generate_and_save_key
\* is entered.
GenStart(p, budget) ==
    /\ pc[p] = "idle"
    /\ started < budget
    /\ started' = started + 1
    /\ \E body_ok \in BOOLEAN, u \in Urls, header \in {None} \cup {Some(h) : h \in Headers},
          conn_ok \in BOOLEAN :
          LET r == [Fresh EXCEPT !.kind = "generate", !.header = header] IN
          IF ~body_ok
          THEN /\ pc' = [pc EXCEPT ![p] = "done"]
               /\ req' = [req EXCEPT ![p] = Respond(r, "panic")]
          ELSE IF AuthRejected(auth_token_env, header)
          THEN /\ pc' = [pc EXCEPT ![p] = "done"]
               /\ req' = [req EXCEPT ![p] = Respond(r, "401")]
          ELSE IF ~conn_ok
          THEN /\ pc' = [pc EXCEPT ![p] = "done"]
               /\ req' = [req EXCEPT ![p] = Respond([r EXCEPT !.failed = "connection"], "500")]
          ELSE /\ pc' = [pc EXCEPT ![p] = "gen_exists"]
               /\ req' = [req EXCEPT ![p] = [r EXCEPT !.url = u, !.prior = returned]]
    /\ UNCHANGED <<store, auth_token_env, returned, created, redirects>>

\* if !key_exists { reserve and return }
ShouldReserveAlways(key_exists) == TRUE
ShouldReserveInverted(key_exists) == key_exists
ShouldReserve(key_exists) == ~key_exists

\* generate_and_save_key, one turn of the loop up to the existence check
\* (lines 81-89 and 96-102): draw a candidate, EXISTS it.
GenExists(p) ==
    /\ pc[p] = "gen_exists"
    /\ \E cand \in Keys, ok \in BOOLEAN :
          IF ~ok
          THEN /\ pc' = [pc EXCEPT ![p] = "done"]
               /\ req' = [req EXCEPT ![p] = Respond([@ EXCEPT !.failed = "exists"], "500")]
          ELSE IF ShouldReserve(Exists(store, cand))
          THEN /\ pc' = [pc EXCEPT ![p] = "gen_reserve"]
               /\ req' = [req EXCEPT ![p].short_key = cand]
          ELSE IF req[p].attempt + 1 < MaxAttempts
          THEN /\ pc' = pc
               /\ req' = [req EXCEPT ![p].attempt = @ + 1]
          ELSE /\ pc' = [pc EXCEPT ![p] = "done"]
               /\ req' = [req EXCEPT ![p] = Respond([@ EXCEPT !.failed = "exhausted"], "500")]
    /\ UNCHANGED <<store, auth_token_env, started, returned, created, redirects>>

\* The reservation write: hset(&short_key, "url", ""), an unconditional HSET.
ReserveWriteIfAbsent(st, k) == IF Exists(st, k) THEN st ELSE HSetUrl(st, k, "")
ReserveWrite(st, k) == HSetUrl(st, k, "")

\* Line 90: hset(&short_key, "url", "")
GenReserve(p) ==
    /\ pc[p] = "gen_reserve"
    /\ \E ok \in BOOLEAN :
          IF ~ok
          THEN /\ pc' = [pc EXCEPT ![p] = "done"]
               /\ req' = [req EXCEPT ![p] = Respond([@ EXCEPT !.failed = "reserve"], "500")]
               /\ store' = store
          ELSE /\ pc' = [pc EXCEPT ![p] = "gen_expire"]
               /\ req' = req
               /\ store' = ReserveWrite(store, req[p].short_key)
    /\ UNCHANGED <<auth_token_env, started, returned, created, redirects>>

\* Lines 91-93 and 63: expire(&short_key, 30 days), return Ok(short_key) to
\* generate_link, which draws the secret token.
GenExpire(p) ==
    /\ pc[p] = "gen_expire"
    /\ \E ok \in BOOLEAN, t \in Tokens :
          IF ~ok
          THEN /\ pc' = [pc EXCEPT ![p] = "done"]
               /\ req' = [req EXCEPT ![p] = Respond([@ EXCEPT !.failed = "expire"], "500")]
               /\ store' = store
               /\ returned' = returned
          ELSE /\ pc' = [pc EXCEPT ![p] = "gen_url"]
               /\ req' = [req EXCEPT ![p].token = t, ![p].attempt = 0]
               /\ store' = ExpireCmd(store, req[p].short_key, TTL_SECONDS)
               /\ returned' = IF Exists(store, req[p].short_key)
                              THEN returned \cup {req[p].short_key}
                              ELSE returned
    /\ UNCHANGED <<auth_token_env, started, created, redirects>>

\* Line 68: hset(&short_key, "url", payload.url)
GenSetUrl(p) ==
    /\ pc[p] = "gen_url"
    /\ \E ok \in BOOLEAN :
          IF ~ok
          THEN /\ pc' = [pc EXCEPT ![p] = "done"]
               /\ req' = [req EXCEPT ![p] = Respond([@ EXCEPT !.failed = "url"], "500")]
               /\ store' = store
          ELSE /\ pc' = [pc EXCEPT ![p] = "gen_token"]
               /\ req' = [req EXCEPT ![p].prior = {}]
               /\ store' = HSetUrl(store, req[p].short_key, req[p].url)
    /\ UNCHANGED <<auth_token_env, started, returned, created, redirects>>

\* Line 69: hset(&short_key, "token", token)
GenSetTokenRollback(p) ==
    /\ pc[p] = "gen_token"
    /\ \E ok \in BOOLEAN :
          IF ~ok
          THEN /\ pc' = [pc EXCEPT ![p] = "done"]
               /\ req' = [req EXCEPT ![p] = Respond([@ EXCEPT !.failed = "token"], "500")]
               /\ store' = [store EXCEPT ![req[p].short_key] = Absent]
          ELSE /\ pc' = [pc EXCEPT ![p] = "gen_clicks"]
               /\ req' = req
               /\ store' = HSetToken(store, req[p].short_key, req[p].token)
    /\ UNCHANGED <<auth_token_env, started, returned, created, redirects>>
GenSetToken(p) ==
    /\ pc[p] = "gen_token"
    /\ \E ok \in BOOLEAN :
          IF ~ok
          THEN /\ pc' = [pc EXCEPT ![p] = "done"]
               /\ req' = [req EXCEPT ![p] = Respond([@ EXCEPT !.failed = "token"], "500")]
               /\ store' = store
          ELSE /\ pc' = [pc EXCEPT ![p] = "gen_clicks"]
               /\ req' = req
               /\ store' = HSetToken(store, req[p].short_key, req[p].token)
    /\ UNCHANGED <<auth_token_env, started, returned, created, redirects>>

\* Lines 70-75: hset(&short_key, "clicks", 0), then the 200 response with the
\* short url and the stats url (key and token).
GenSetClicks(p) ==
    /\ pc[p] = "gen_clicks"
    /\ \E ok \in BOOLEAN :
          IF ~ok
          THEN /\ pc' = [pc EXCEPT ![p] = "done"]
               /\ req' = [req EXCEPT ![p] = Respond([@ EXCEPT !.failed = "clicks"], "500")]
               /\ store' = store
               /\ created' = created
          ELSE /\ pc' = [pc EXCEPT ![p] = "done"]
               /\ req' = [req EXCEPT ![p] = Respond(@, "200")]
               /\ store' = HSetClicks(store, req[p].short_key, 0)
               /\ created' = IF created[req[p].short_key] = None
                             THEN [created EXCEPT ![req[p].short_key] =
                                       Some([url |-> req[p].url, token |-> req[p].token])]
                             ELSE created
    /\ UNCHANGED <<auth_token_env, started, returned, redirects>>

\* ------------------------------------------------------------ proxy_link
\* Lines 117-119: open the connection, hget(&short_key, "url") into a String.
\* A nil reply does not convert to String, so an absent key or field is an
\* error like a failed command: both are mapped to 404.
ProxyGet(p, budget) ==
    /\ pc[p] = "idle"
    /\ started < budget
    /\ started' = started + 1
    /\ \E k \in Keys, conn_ok \in BOOLEAN, ok \in BOOLEAN :
          LET r == [Fresh EXCEPT !.kind = "proxy", !.short_key = k]
              got == HGetUrl(store, k) IN
          IF ~conn_ok
          THEN /\ pc' = [pc EXCEPT ![p] = "done"]
               /\ req' = [req EXCEPT ![p] = Respond([r EXCEPT !.failed = "connection"], "500")]
          ELSE IF ~ok
          THEN /\ pc' = [pc EXCEPT ![p] = "done"]
               /\ req' = [req EXCEPT ![p] = Respond([r EXCEPT !.failed = "url"], "404")]
          ELSE IF got = None
          THEN /\ pc' = [pc EXCEPT ![p] = "done"]
               /\ req' = [req EXCEPT ![p] = Respond(r, "404")]
          ELSE /\ pc' = [pc EXCEPT ![p] = "proxy_incr"]
               /\ req' = [req EXCEPT ![p] =
                            [r EXCEPT !.url = Unwrap(got),
                                      !.expect_url = IF created[k] = None THEN None
                                                     ELSE Some(Unwrap(created[k]).url)]]
    /\ UNCHANGED <<store, auth_token_env, returned, created, redirects>>

\* Lines 121-123: hincr(&short_key, "clicks", 1), then the 307 response.
ProxyIncr(p) ==
    /\ pc[p] = "proxy_incr"
    /\ \E ok \in BOOLEAN :
          IF ~ok
          THEN /\ pc' = [pc EXCEPT ![p] = "done"]
               /\ req' = [req EXCEPT ![p] = Respond([@ EXCEPT !.failed = "clicks"], "500")]
               /\ store' = store
               /\ redirects' = redirects
          ELSE /\ pc' = [pc EXCEPT ![p] = "done"]
               /\ req' = [req EXCEPT ![p] = Respond(@, "307")]
               /\ store' = HIncrClicks(store, req[p].short_key, 1)
               /\ redirects' = [redirects EXCEPT ![req[p].short_key] = @ + 1]
    /\ UNCHANGED <<auth_token_env, started, returned, created>>

\* ------------------------------------------------------------- get_stats
\* match params.token { None => 404, Some(token) if token != stored_token => 401, _ => {} }
StatsMatchOptionCompare(supplied, stored_token) ==
    IF supplied # Some(stored_token) THEN "401" ELSE "ok"
StatsMatch(supplied, stored_token) ==
    IF supplied = None THEN "404"
    ELSE IF Unwrap(supplied) # stored_token THEN "401"
    ELSE "ok"

\* Lines 131-139: open the connection, hget(&short_key, "token") into a
\* String (any error, a nil reply included, is mapped to 404), compare with
\* the supplied token.
StatsGet(p, budget) ==
    /\ pc[p] = "idle"
    /\ started < budget
    /\ started' = started + 1
    /\ \E k \in Keys, supplied \in {None} \cup {Some(t) : t \in Tokens},
          conn_ok \in BOOLEAN, ok \in BOOLEAN :
          LET r == [Fresh EXCEPT !.kind = "stats", !.short_key = k, !.supplied = supplied,
                                 !.present = Exists(store, k),
                                 !.issued_token = IF created[k] = None THEN None
                                                  ELSE Some(Unwrap(created[k]).token)]
              got == HGetToken(store, k) IN
          IF ~conn_ok
          THEN /\ pc' = [pc EXCEPT ![p] = "done"]
               /\ req' = [req EXCEPT ![p] = Respond([r EXCEPT !.failed = "connection"], "500")]
          ELSE IF ~ok
          THEN /\ pc' = [pc EXCEPT ![p] = "done"]
               /\ req' = [req EXCEPT ![p] = Respond([r EXCEPT !.failed = "token"], "404")]
          ELSE IF got = None
          THEN /\ pc' = [pc EXCEPT ![p] = "done"]
               /\ req' = [req EXCEPT ![p] = Respond(r, "404")]
          ELSE LET m == StatsMatch(supplied, Unwrap(got)) IN
               IF m # "ok"
               THEN /\ pc' = [pc EXCEPT ![p] = "done"]
                    /\ req' = [req EXCEPT ![p] = Respond([r EXCEPT !.stored_token = got], m)]
               ELSE /\ pc' = [pc EXCEPT ![p] = "stats_clicks"]
                    /\ req' = [req EXCEPT ![p] = [r EXCEPT !.stored_token = got]]
    /\ UNCHANGED <<store, auth_token_env, returned, created, redirects>>

\* Lines 141-146: hget(&short_key, "clicks") into a usize (any error, a nil
\* reply included, is mapped to 500), then the 200 response.
StatsClicks(p) ==
    /\ pc[p] = "stats_clicks"
    /\ \E ok \in BOOLEAN :
          LET got == HGetClicks(store, req[p].short_key) IN
          IF ~ok
          THEN /\ pc' = [pc EXCEPT ![p] = "done"]
               /\ req' = [req EXCEPT ![p] = Respond([@ EXCEPT !.failed = "clicks"], "500")]
          ELSE IF got = None
          THEN /\ pc' = [pc EXCEPT ![p] = "done"]
               /\ req' = [req EXCEPT ![p] = Respond(@, "500")]
          ELSE /\ pc' = [pc EXCEPT ![p] = "done"]
               /\ req' = [req EXCEPT ![p] = Respond([@ EXCEPT !.clicks = Unwrap(got)], "200")]
    /\ UNCHANGED <<store, auth_token_env, started, returned, created, redirects>>

\* ---------------------------------------------------------- environment
\* The response has been sent; the task slot serves another request.
Return(p) ==
    /\ pc[p] = "done"
    /\ pc' = [pc EXCEPT ![p] = "idle"]
    /\ req' = [req EXCEPT ![p] = Fresh]
    /\ UNCHANGED <<store, auth_token_env, started, returned, created, redirects>>

\* The TTL of a key runs out: Redis deletes the whole hash.  The histories
\* of the key restart, and the requests in flight on it are no longer
\* requests made before its expiry.
KeyExpiry(k) ==
    /\ Exists(store, k)
    /\ store[k].ttl > 0
    /\ store' = [store EXCEPT ![k] = Absent]
    /\ returned' = returned \ {k}
    /\ created' = [created EXCEPT ![k] = None]
    /\ redirects' = [redirects EXCEPT ![k] = 0]
    /\ req' = [p \in Procs |->
                 [req[p] EXCEPT !.prior = @ \ {k},
                                !.expect_url = IF req[p].short_key = k THEN None ELSE @,
                                !.issued_token = IF req[p].short_key = k THEN None ELSE @]]
    /\ UNCHANGED <<auth_token_env, pc, started>>

Next(budget) ==
    \/ \E p \in Procs : GenStart(p, budget)
    \/ \E p \in Procs : GenExists(p)
    \/ \E p \in Procs : GenReserve(p)
    \/ \E p \in Procs : GenExpire(p)
    \/ \E p \in Procs : GenSetUrl(p)
    \/ \E p \in Procs : GenSetToken(p)
    \/ \E p \in Procs : GenSetClicks(p)
    \/ \E p \in Procs : ProxyGet(p, budget)
    \/ \E p \in Procs : ProxyIncr(p)
    \/ \E p \in Procs : StatsGet(p, budget)
    \/ \E p \in Procs : StatsClicks(p)
    \/ \E p \in Procs : Return(p)
    \/ \E k \in Keys : KeyExpiry(k)

\* Behaviours of at most MaxRequests requests.
Spec == Init /\ [][Next(MaxRequests)]_vars

\* Behaviours of one request more: room for two creations and a reader.
SpecWide == Init /\ [][Next(MaxRequests + 1)]_vars

\* ------------------------------------------------------------ properties
Reserved(k) == store[k].has = {"url"} /\ store[k].url = ""
Active(k) == store[k].has = {"url", "token", "clicks"}
Answered(p, kind) == pc[p] = "done" /\ req[p].kind = kind

\* C1: a redirect answered 307 on a key that a creation request had already
\* returned for URL u (the key not expired since) has target u.
C1_RoundTrip ==
    \A p \in Procs :
        (Answered(p, "proxy") /\ req[p].status = "307" /\ req[p].expect_url # None)
            => req[p].url = Unwrap(req[p].expect_url)

\* C2: the clicks of every existing key (0 when the field is not there yet)
\* equal the number of redirects answered 307 on it.
C2_ClicksCountRedirects ==
    \A k \in Keys : Exists(store, k) => store[k].clicks = redirects[k]

\* C3: a stats request the store answered: with the token a creation of the
\* key returned it succeeds; with a token other than the stored one it is
\* answered 401; with no token 404; on an absent key 404.
C3_StatsAuthorization ==
    \A p \in Procs :
        (Answered(p, "stats") /\ req[p].failed = "") =>
            /\ (req[p].issued_token # None /\ req[p].supplied = req[p].issued_token)
                   => req[p].status = "200"
            /\ (req[p].stored_token # None /\ req[p].supplied # None
                    /\ req[p].supplied # req[p].stored_token)
                   => req[p].status = "401"
            /\ req[p].supplied = None => req[p].status = "404"
            /\ ~req[p].present => req[p].status = "404"

\* C4: an allocation that starts after another one has returned key k, with
\* the record of k in the store ever since, does not return k.
C4_SequentialDistinct ==
    \A p \in Procs : pc[p] = "gen_url" => req[p].short_key \notin req[p].prior

\* C4 witness: an allocation that started after another had returned, and
\* returned a key itself.
C4_Witness ==
    \E p \in Procs : pc[p] = "gen_url" /\ req[p].prior # {} /\ Exists(store, req[p].short_key)

\* C5: every existing key is reserved (url empty, no token, no clicks) or
\* active (url, token and clicks present).
C5_RecordShape ==
    \A k \in Keys : Exists(store, k) => (Reserved(k) \/ Active(k))

\* C6: a step that leaves a key in the store leaves its token field, once
\* written, as it was.
C6_TokenImmutable ==
    [][\A k \in Keys :
          ("token" \in store[k].has /\ Exists(store', k))
              => ("token" \in store'[k].has /\ store'[k].token = store[k].token)]_vars

\* C7: a step that leaves a key in the store does not lower its clicks field.
C7_ClicksMonotone ==
    [][\A k \in Keys :
          ("clicks" \in store[k].has /\ Exists(store', k))
              => ("clicks" \in store'[k].has /\ store'[k].clicks >= store[k].clicks)]_vars

\* C8: every active record has a TTL.
C8_ActiveHasTTL ==
    \A k \in Keys : Active(k) => store[k].ttl = TTL_SECONDS

\* C9: a stats request during which a store operation failed with a
\* communication error is answered 500.
C9_StatsStoreFailure ==
    \A p \in Procs :
        (Answered(p, "stats") /\ req[p].failed # "") => req[p].status = "500"

\* C10: a stats request without token that the store answered gets 404,
\* whether the key was absent, reserved or active.
C10_NoTokenNotFound ==
    \A p \in Procs :
        (Answered(p, "stats") /\ req[p].supplied = None /\ req[p].failed = "")
            => req[p].status = "404"

\* C10 witness: a request without token on a key that held a token.
C10_Witness ==
    \E p \in Procs :
        /\ Answered(p, "stats") /\ req[p].supplied = None /\ req[p].failed = ""
        /\ req[p].present /\ req[p].stored_token # None
        /\ req[p].status = "404"

\* C11: a creation request whose Authorization header is missing or differs
\* from AUTH_TOKEN, or that arrives with AUTH_TOKEN unset, is answered 401
\* and leaves the store unchanged.
C11_CreationAuthorization ==
    [][\A p \in Procs :
          (pc[p] = "idle" /\ req'[p].kind = "generate"
              /\ AuthRejected(auth_token_env, req'[p].header))
              => (pc'[p] = "done" /\ req'[p].status = "401" /\ store' = store)]_vars

Allocated(p) == pc[p] \in {"gen_url", "gen_token", "gen_clicks"}

\* C12: a reservation write that succeeds leaves the url of its key empty,
\* whatever another request had written there, and reports nothing to any
\* other request.
C12_ReservationOverwrites ==
    [][\A p \in Procs :
          (pc[p] = "gen_reserve" /\ pc'[p] = "gen_expire")
              => /\ "url" \in store'[req[p].short_key].has
                 /\ store'[req[p].short_key].url = ""
                 /\ \A q \in Procs \ {p} : pc'[q] = pc[q] /\ req'[q] = req[q]]_vars

\* C12 witness: two creation requests in flight, each returned the same key
\* by generate_and_save_key.
C12_Witness ==
    \E p, q \in Procs :
        /\ p # q
        /\ Allocated(p) /\ Allocated(q)
        /\ req[p].short_key = req[q].short_key

C14_ReservedBeforeReturn ==
    [][\A p \in Procs :
          /\ (pc'[p] = "gen_expire" /\ pc[p] # "gen_expire") =>
                 /\ pc[p] = "gen_reserve"
                 /\ req'[p].short_key = req[p].short_key
                 /\ "url" \in store'[req[p].short_key].has
                 /\ store'[req[p].short_key].url = ""
          /\ (pc'[p] = "gen_url" /\ pc[p] # "gen_url") =>
                 /\ pc[p] = "gen_expire"
                 /\ req'[p].short_key = req[p].short_key
                 /\ Exists(store, req[p].short_key)
                        => store'[req[p].short_key].ttl = TTL_SECONDS
          /\ (pc[p] \in {"gen_exists", "gen_reserve", "gen_expire"} /\ pc'[p] = "done") =>
                 /\ req'[p].status = "500"
                 /\ req'[p].failed \in {"exists", "exhausted", "reserve", "expire"}
                 /\ store' = store]_vars

\* C14 witness: an allocation has just returned a key that is reserved and
\* carries the TTL.
C14_Witness ==
    \E p \in Procs :
        /\ pc[p] = "gen_url"
        /\ Reserved(req[p].short_key)
        /\ store[req[p].short_key].ttl = TTL_SECONDS

\* C15: a step of finalize (the url, token or clicks write of generate_link,
\* failed or not) leaves the TTL of every key as it was, removes no field
\* and touches no key but its own.
C15_FinalizeKeepsTTL ==
    [][\A p \in Procs :
          (Allocated(p) /\ pc'[p] # pc[p]) =>
              \A k \in Keys :
                  /\ store'[k].ttl = store[k].ttl
                  /\ store[k].has \subseteq store'[k].has
                  /\ k # req[p].short_key => store'[k] = store[k]]_vars

\* C15 witness: a creation has completed its three writes on a key that
\* still carries the TTL of its reservation.
C15_Witness ==
    \E p \in Procs :
        /\ Answered(p, "generate") /\ req[p].status = "200"
        /\ Active(req[p].short_key)
        /\ store[req[p].short_key].ttl = TTL_SECONDS

\* C16: the step after a successful url read of proxy_link either fails its
\* increment, and the request ends with 500, no redirect and no write, or
\* applies the increment and ends with 307; a 307 is produced by no other
\* step; a request on an absent key whose connection opened ends with 404
\* in its first step, without any write.
C16_IncrementFailureFatal ==
    [][\A p \in Procs :
          /\ (pc[p] = "proxy_incr" /\ pc'[p] # pc[p]) =>
                 /\ pc'[p] = "done"
                 /\ \/ /\ req'[p].failed = "clicks"
                       /\ req'[p].status = "500"
                       /\ store' = store
                    \/ /\ req'[p].failed = ""
                       /\ req'[p].status = "307"
                       /\ "clicks" \in store'[req[p].short_key].has
                       /\ store'[req[p].short_key].clicks
                              = store[req[p].short_key].clicks + 1
          /\ (req[p].status # "307" /\ req'[p].status = "307") => pc[p] = "proxy_incr"
          /\ (pc[p] = "idle" /\ req'[p].kind = "proxy"
                 /\ req'[p].failed # "connection"
                 /\ ~Exists(store, req'[p].short_key)) =>
                 /\ pc'[p] = "done"
                 /\ req'[p].status = "404"
                 /\ store' = store]_vars

\* C16 witness: a redirect request has read a url and been answered 500
\* because its increment failed.
C16_Witness ==
    \E p \in Procs :
        /\ Answered(p, "proxy")
        /\ req[p].failed = "clicks"
        /\ req[p].status = "500"
        /\ req[p].url \in Urls

\* C17: a finalize write of generate_link that fails ends the request with
\* 500 and leaves the store exactly as the earlier writes made it.
C17_NoRollback ==
    [][\A p \in Procs :
          (Allocated(p) /\ pc'[p] = "done" /\ req'[p].status # "200") =>
              /\ req'[p].status = "500"
              /\ req'[p].failed \in {"url", "token", "clicks"}
              /\ store' = store]_vars

\* C17 witness: a creation request has failed at its token write and its
\* key is in the store with the url set and neither token nor clicks.
C17_Witness ==
    \E p \in Procs :
        /\ Answered(p, "generate")
        /\ req[p].status = "500"
        /\ req[p].failed = "token"
        /\ store[req[p].short_key].has = {"url"}
        /\ store[req[p].short_key].url \in Urls

\* C18: a redirect request on a reserved key whose url read is answered by
\* the store is not answered not-found: it goes on to the increment with
\* the empty string as target; when that increment is applied the key's
\* clicks grow by one and the response is a redirect to the empty string.
C18_RedirectOnReserved ==
    [][\A p \in Procs :
          /\ (pc[p] = "idle" /\ req'[p].kind = "proxy"
                 /\ req'[p].failed = "" /\ Reserved(req'[p].short_key)) =>
                 /\ pc'[p] = "proxy_incr"
                 /\ req'[p].url = ""
          /\ (pc[p] = "proxy_incr" /\ req[p].url = ""
                 /\ pc'[p] = "done" /\ req'[p].failed = "") =>
                 /\ req'[p].status = "307"
                 /\ req'[p].url = ""
                 /\ store'[req[p].short_key].clicks = store[req[p].short_key].clicks + 1]_vars

\* C18 witness: a redirect to the empty string has been returned on a key
\* that is still not finalized and now counts a click.
C18_Witness ==
    \E p \in Procs :
        /\ Answered(p, "proxy")
        /\ req[p].status = "307"
        /\ req[p].url = ""
        /\ store[req[p].short_key].has = {"url", "clicks"}
        /\ store[req[p].short_key].url = ""
        /\ store[req[p].short_key].clicks = 1

\* C19: a key that was absent comes into existence only by the reservation
\* write of generate_and_save_key on that key.
C19_OnlyAllocationCreates ==
    [][\A k \in Keys :
          (~Exists(store, k) /\ Exists(store', k)) =>
              \E p \in Procs : /\ pc[p] = "gen_reserve"
                               /\ pc'[p] = "gen_expire"
                               /\ req[p].short_key = k]_vars

====
